---------------------------- MODULE Spec2Model ----------------------------
(***************************************************************************)
(* Ordered slide collection of servers/fastapi/api/v1/ppt/endpoints/       *)
(* slide.py: create_slide, delete_slide, edit_slide and edit_slide_html    *)
(* as request handlers running on one asyncio event loop, each with its    *)
(* own AsyncSession (unit of work) against one relational store.           *)
(*                                                                         *)
(* Store: the committed rows.  A handler's SELECT reads the committed rows *)
(* at the time of the statement plus the handler's own uncommitted DELETE  *)
(* (statement-level read committed); ORM attribute changes are written by  *)
(* the flush inside commit(), one UPDATE per changed object keyed by the   *)
(* primary key it was loaded with; an UPDATE that matches no row raises    *)
(* and the transaction is rolled back.                                     *)
(*                                                                         *)
(* A handler yields to other handlers only at an await.  The steps between *)
(* two statements against the store (the collaborator calls, the reindex   *)
(* loops, building the response) touch the handler's own memory only and   *)
(* commute with every step of another handler, so they are taken without   *)
(* interleaving: another handler runs only while this one waits for the    *)
(* store.                                                                  *)
(*                                                                         *)
(* Object storage of utils/s3_utils.py: the module global _s3_client, and  *)
(* the synchronous upload and download helpers as tasks on the threads of  *)
(* the event loop's default executor, which may be preempted between any   *)
(* two statements.                                                         *)
(***************************************************************************)
EXTENDS Integers, Sequences, FiniteSets, TLC

\* ------------------------------------------------------------------ bounds
\* Number of uuid4() identities handed out to requests served one at a
\* time from empty presentations; a presentation that concurrent requests
\* start from holds fewer slides.
MaxId == 3

\* ------------------------------------------------------------------ data
Pres == {1, 2}
\* A presentation_id that does not resolve.
NoPres == 3
Sess == {1, 2}
NoId == 0
\* slide_index values a request may carry.
Indexes == -1 .. MaxId
\* Requests as they arrive: presentation_id and slide_index; one request
\* stands for those whose presentation does not resolve.
Requests(ps) == (ps \X Indexes) \cup {<<NoPres, 0>>}
\* layout_model.slides, by position.
Layouts == {0, 1}
\* presentation_structure.slides as the structure step may produce it: no
\* suggestion, in-bounds and out-of-bounds positions, more than one.
Structures == { <<>>, <<-3>>, <<-1>>, <<0>>, <<1>>, <<2>>, <<1, 0>> }
\* Slide content documents: with and without the reserved speaker note key.
NoNote == "absent"
Contents == { [body |-> 1, sn |-> NoNote], [body |-> 2, sn |-> "note"] }
NoContent == [body |-> 0, sn |-> NoNote]
NoHtml == ""
Htmls == {"h1", "h2"}

VARIABLES
    slides,    \* committed SlideModel rows
    n_slides,  \* committed PresentationModel.n_slides, per presentation
    nextId,    \* identities handed out so far by uuid.uuid4()
    ses,       \* per request: the handler's position, arguments and session
    hist,      \* history: the store before the last committed create_slide,
               \* while no commit followed it but a delete_slide at its index
    s3_client, \* utils/s3_utils.py: the module global _s3_client
    env,       \* the object storage settings of the process environment
    built,     \* boto3 clients constructed so far
    thr        \* per executor thread: the task it runs and its position

slidevars == <<slides, n_slides, nextId, ses, hist>>

s3vars == <<s3_client, env, built, thr>>

vars == <<slides, n_slides, nextId, ses, hist, s3_client, env, built, thr>>

NoHist == [kind |-> "none", pid |-> 0, idx |-> 0, rows |-> {}, n |-> <<>>]

\* ------------------------------------------------------------------ helpers
\* dict.get("__speaker_note__", "")
SpeakerNoteNoDefault(c) == c.sn
SpeakerNote(c) == IF c.sn = NoNote THEN "" ELSE c.sn

\* Is presentation p's layout a fixed ordered sequence (layout_model.ordered).
Ordered(p) == p = 2

Row(i, p, x, c, l) ==
    [id |-> i, pres |-> p, index |-> x, content |-> c, layout |-> l,
     note |-> SpeakerNote(c), html |-> NoHtml]

\* The rows of presentation p among rows.
OfPres(rows, p) == { r \in rows : r.pres = p }

IdsOf(rows) == { r.id : r \in rows }

IndexSet(rows) == { r.index : r \in rows }

\* All orderings of a finite set of rows by index (ORDER BY index); rows
\* with equal index come in either order.
RECURSIVE OrderedAsc(_)
OrderedAsc(rows) ==
    IF rows = {} THEN { <<>> }
    ELSE UNION { { <<r>> \o q : q \in OrderedAsc(rows \ {r}) } :
                 r \in { x \in rows : \A y \in rows : x.index <= y.index } }

RECURSIVE OrderedDesc(_)
OrderedDesc(rows) ==
    IF rows = {} THEN { <<>> }
    ELSE UNION { { <<r>> \o q : q \in OrderedDesc(rows \ {r}) } :
                 r \in { x \in rows : \A y \in rows : x.index >= y.index } }

SeqIds(q) == [i \in DOMAIN q |-> q[i].id]

\* ------------------------------------------------------------------ session
Idle ==
    [op |-> "idle", pc |-> "idle", pid |-> 0, idx |-> 0, sid |-> NoId,
     reqhtml |-> NoHtml, n |-> 0, len |-> 0, imap |-> {}, target |-> NoId,
     deleted |-> {}, subsequent |-> <<>>, k |-> 0, dirty |-> {},
     layout |-> 0, content |-> NoContent, newhtml |-> NoHtml, uid |-> NoId,
     newn |-> 0, calls |-> {}, err |-> "", ret |-> <<>>, layout_index |-> 0]

\* The rows a statement of session s reads: committed rows minus the rows
\* its own uncommitted DELETE removed.
Visible(s) == { r \in slides : r.id \notin ses[s].deleted }

\* The session's object for a row the store returns: the object already in
\* the identity map keeps its loaded attributes, a row not yet loaded is
\* loaded as stored.
Obj(s, r) ==
    IF r.id \in IdsOf(ses[s].imap)
    THEN CHOOSE o \in ses[s].imap : o.id = r.id
    ELSE r

ObjById(s, i) == CHOOSE o \in ses[s].imap : o.id = i

\* Identity map after the store returned rows.
Loaded(s, rows) == ses[s].imap \cup { Obj(s, r) : r \in rows }

\* Positions at which a handler waits for the store (or has not begun, or
\* is over): another handler runs only while every other one is at such a
\* position.
Waiting ==
    {"idle", "list", "lookup", "delete", "subsequent", "commit", "relist",
     "done", "failed"}

CanRun(s) == \A t \in Sess \ {s} : ses[t].pc \in Waiting

\* Rows another session deleted in a transaction still open.
LockedByOthers(s) ==
    UNION { ses[t].deleted : t \in { u \in Sess : u # s /\ ses[u].pc \notin {"done", "failed", "idle"} } }

\* The store's rows once the session's unit of work is flushed: its DELETE
\* applied, and each object whose index it changed written by primary key.
Flush(s) ==
    { IF r.id \in ses[s].dirty
      THEN [r EXCEPT !.index = ObjById(s, r.id).index]
      ELSE r : r \in Visible(s) }

\* Store after a handler raised: the exception leaves the handler before
\* commit(), the session is discarded and nothing staged is written.
OnErrorCommitStaged(rows, staged) == staged
OnError(rows, staged) == rows

\* The handler raised e: what is left of the request is its arguments, what
\* it had read and called, and the error.
Failed(s, e) ==
    [Idle EXCEPT !.op = ses[s].op, !.pc = "failed", !.pid = ses[s].pid,
                 !.idx = ses[s].idx, !.sid = ses[s].sid,
                 !.reqhtml = ses[s].reqhtml, !.len = ses[s].len,
                 !.target = ses[s].target,
                 !.calls = ses[s].calls, !.err = e]

Raise(s, e) ==
    /\ ses' = [ses EXCEPT ![s] = Failed(s, e)]
    /\ slides' = OnError(slides, Flush(s))
    /\ UNCHANGED <<n_slides, nextId, hist, s3vars>>

\* The request returned: what is left of it is its arguments and its result
\* (the presentation's counter as the session holds it, the slides listed).
Returned(s, q) ==
    [Idle EXCEPT !.op = ses[s].op, !.pc = "done", !.pid = ses[s].pid,
                 !.idx = ses[s].idx, !.sid = ses[s].sid,
                 !.reqhtml = ses[s].reqhtml, !.len = ses[s].len,
                 !.target = ses[s].target, !.uid = ses[s].uid,
                 !.newn = ses[s].newn, !.calls = ses[s].calls, !.ret = q]

\* A request rq for operation o arrives at an idle handler, which gets the
\* presentation: not found, or held by the session with its counter as
\* stored now, and the handler goes on to position next.
Got(s, o, rq, next) ==
    IF rq[1] \notin Pres
    THEN [Idle EXCEPT !.op = o, !.pid = rq[1], !.idx = rq[2],
                      !.pc = "failed", !.err = "presentation not found"]
    ELSE [Idle EXCEPT !.op = o, !.pid = rq[1], !.idx = rq[2],
                      !.pc = next, !.n = n_slides[rq[1]]]

\* ------------------------------------------------------------------ create_slide
\* A request arrives; sql_session.get(PresentationModel, presentation_id)
CreateGet(s, ps) ==
    /\ ses[s].pc = "idle" /\ CanRun(s)
    /\ \E rq \in Requests(ps) : ses' = [ses EXCEPT ![s] = Got(s, "create", rq, "list")]
    /\ UNCHANGED <<slides, n_slides, nextId, hist, s3vars>>

CreateIndexOutOfRangeOffByOne(i, len) == i < 0 \/ i > len + 1
CreateIndexOutOfRange(i, len) == i < 0 \/ i > len

\* slides_list and the range check on slide_index
CreateList(s) ==
    /\ ses[s].op = "create" /\ ses[s].pc = "list" /\ CanRun(s)
    /\ LET rows == OfPres(Visible(s), ses[s].pid)
           len  == Cardinality(rows)
       IN IF CreateIndexOutOfRange(ses[s].idx, len)
          THEN /\ ses' = [ses EXCEPT ![s] =
                           [Failed(s, "index out of range") EXCEPT !.len = len]]
               /\ slides' = OnError(slides, Flush(s))
               /\ UNCHANGED <<n_slides, nextId, hist, s3vars>>
          ELSE /\ ses' = [ses EXCEPT ![s].imap = Loaded(s, rows), ![s].len = len,
                                     ![s].pc = "structure"]
               /\ UNCHANGED <<slides, n_slides, nextId, hist, s3vars>>

\* presentation_structure.slides[:1]
FirstOnly(q) == SubSeq(q, 1, IF Len(q) < 1 THEN Len(q) ELSE 1)

\* layout_index after the fallback
LayoutIndex(k) == IF k >= Cardinality(Layouts) THEN 0 ELSE k

\* layout_model.slides[layout_index]: a negative position counts from the
\* end of the list; -1 stands for the IndexError of a position before it.
LayoutAt(k) ==
    IF k >= 0 THEN k
    ELSE IF k + Cardinality(Layouts) >= 0 THEN k + Cardinality(Layouts) ELSE -1

\* The structure collaborator is called for a layout that is not ordered.
StructureCalls(s) ==
    IF Ordered(ses[s].pid) THEN ses[s].calls ELSE ses[s].calls \cup {"structure"}

\* to_presentation_structure() of an ordered layout: its positions in order.
OrderedStructure == <<0, 1>>

\* The structures the step may get: an ordered layout's own, its positions
\* in order; else whatever the collaborator suggests.
StructuresOf(p) == IF Ordered(p) THEN { OrderedStructure } ELSE Structures

\* Layout selection: the ordered layout's own structure, else the structure
\* collaborator, which may raise.
CreateStructure(s) ==
    /\ ses[s].op = "create" /\ ses[s].pc = "structure"
    /\ \/ /\ ~Ordered(ses[s].pid)
          /\ ses' = [ses EXCEPT ![s] =
                       [Failed(s, "generation failed") EXCEPT !.calls = StructureCalls(s)]]
          /\ slides' = OnError(slides, Flush(s))
          /\ UNCHANGED <<n_slides, nextId, hist, s3vars>>
       \/ \E st \in StructuresOf(ses[s].pid) :
            LET one == FirstOnly(st)
            IN IF one = <<>>
               THEN /\ ses' = [ses EXCEPT ![s] =
                                [Failed(s, "no layout") EXCEPT !.calls = StructureCalls(s)]]
                    /\ slides' = OnError(slides, Flush(s))
                    /\ UNCHANGED <<n_slides, nextId, hist, s3vars>>
               ELSE IF LayoutAt(LayoutIndex(one[1])) \notin Layouts
               THEN /\ ses' = [ses EXCEPT ![s] =
                                [Failed(s, "IndexError") EXCEPT !.calls = StructureCalls(s)]]
                    /\ slides' = OnError(slides, Flush(s))
                    /\ UNCHANGED <<n_slides, nextId, hist, s3vars>>
               ELSE /\ ses' = [ses EXCEPT ![s].layout = LayoutAt(LayoutIndex(one[1])),
                                          ![s].layout_index = one[1],
                                          ![s].calls = StructureCalls(s),
                                          ![s].pc = "content"]
                    /\ UNCHANGED <<slides, n_slides, nextId, hist, s3vars>>

\* get_slide_content_from_type_and_outline, which may raise; then
\* SlideModel(...): the new slide gets its identity when it is constructed.
\* layout_index is not read again once slide_layout is chosen.
CreateContent(s) ==
    /\ ses[s].op = "create" /\ ses[s].pc = "content"
    /\ \/ /\ ses' = [ses EXCEPT ![s] =
                       [Failed(s, "generation failed") EXCEPT !.calls = ses[s].calls \cup {"content"}]]
          /\ slides' = OnError(slides, Flush(s))
          /\ UNCHANGED <<n_slides, nextId, hist, s3vars>>
       \/ \E c \in Contents :
            /\ ses' = [ses EXCEPT ![s].content = c, ![s].uid = nextId + 1,
                                  ![s].layout_index = 0,
                                  ![s].calls = ses[s].calls \cup {"content"},
                                  ![s].pc = "subsequent"]
            /\ nextId' = nextId + 1
            /\ UNCHANGED <<slides, n_slides, hist, s3vars>>

\* new_slide
NewSlide(s) ==
    Row(ses[s].uid, ses[s].pid, ses[s].idx, ses[s].content, ses[s].layout)

CreateSubsequentWhereAfter(r, p, i) == r.pres = p /\ r.index > i
CreateSubsequentWhereAnyPresentation(r, p, i) == r.index >= i
\* WHERE presentation == presentation_id AND index >= slide_index
CreateSubsequentWhere(r, p, i) == r.pres = p /\ r.index >= i

CreateOrderAsc(rows) == OrderedAsc(rows)
\* ORDER BY index DESC
CreateOrder(rows) == OrderedDesc(rows)

\* The subsequent slides are selected.
CreateSubsequent(s) ==
    /\ ses[s].op = "create" /\ ses[s].pc = "subsequent" /\ CanRun(s)
    /\ LET rows == { r \in Visible(s) : CreateSubsequentWhere(r, ses[s].pid, ses[s].idx) }
       IN \E q \in CreateOrder(rows) :
            ses' = [ses EXCEPT ![s].imap = Loaded(s, rows),
                               ![s].subsequent = SeqIds(q),
                               ![s].k = 1,
                               ![s].pc = IF rows = {} THEN "assets" ELSE "shift"]
    /\ UNCHANGED <<slides, n_slides, nextId, hist, s3vars>>

\* The session's objects with object i's index changed by d.
Reindexed(s, i, d) ==
    { IF o.id = i THEN [o EXCEPT !.index = o.index + d] ELSE o : o \in ses[s].imap }

\* One pass of: for s in subsequent_slides: s.index = s.index + 1
CreateShift(s) ==
    /\ ses[s].op = "create" /\ ses[s].pc = "shift"
    /\ LET i == ses[s].subsequent[ses[s].k]
       IN ses' = [ses EXCEPT ![s].imap = Reindexed(s, i, 1),
                             ![s].dirty = @ \cup {i},
                             ![s].k = @ + 1,
                             ![s].pc = IF ses[s].k = Len(ses[s].subsequent)
                                       THEN "assets" ELSE "shift"]
    /\ UNCHANGED <<slides, n_slides, nextId, hist, s3vars>>

CreateNSlidesFromList(n, len) == len + 1
\* (presentation.n_slides or len(slides_list)) + 1
CreateNSlides(n, len) == (IF n # 0 THEN n ELSE len) + 1

\* process_slide_and_fetch_assets, which may raise; then the new slide and
\* the counter are staged and commit() is called.
CreateAssets(s) ==
    /\ ses[s].op = "create" /\ ses[s].pc = "assets"
    /\ \/ /\ ses' = [ses EXCEPT ![s] =
                       [Failed(s, "generation failed") EXCEPT !.calls = ses[s].calls \cup {"assets"}]]
          /\ slides' = OnError(slides, Flush(s))
          /\ UNCHANGED <<n_slides, nextId, hist, s3vars>>
       \/ /\ ses' = [ses EXCEPT ![s].calls = @ \cup {"assets"},
                                ![s].newn = CreateNSlides(ses[s].n, ses[s].len),
                                ![s].pc = "commit"]
          /\ UNCHANGED <<slides, n_slides, nextId, hist, s3vars>>

\* The rows the flush of session s updates, by the primary key they were
\* loaded with: the reindexed slides, and the edited slide.
Writes(s) ==
    ses[s].dirty \cup
      (IF ses[s].op \in {"edit", "edit_html"} /\ ses[s].pc = "commit"
       THEN {ses[s].target} ELSE {})

\* An UPDATE of the flush would match no row: the object's row is gone.
Stale(s) == Writes(s) \ IdsOf(slides) # {}

\* The flush waits for a row another open transaction deleted.
Blocked(s) == Writes(s) \cap LockedByOthers(s) # {}

\* sql_session.commit(): the shifted slides, the new slide and the counter.
CreateCommit(s) ==
    /\ ses[s].op = "create" /\ ses[s].pc = "commit" /\ CanRun(s)
    /\ ~Blocked(s)
    /\ IF Stale(s)
       THEN Raise(s, "stale")
       ELSE /\ slides' = Flush(s) \cup {NewSlide(s)}
            /\ n_slides' = [n_slides EXCEPT ![ses[s].pid] = ses[s].newn]
            /\ ses' = [ses EXCEPT ![s].pc = "relist"]
            /\ hist' = [kind |-> "create", pid |-> ses[s].pid, idx |-> ses[s].idx,
                        rows |-> slides, n |-> n_slides]
            /\ UNCHANGED <<nextId, s3vars>>

\* updated_slides, the ordered listing returned with the presentation.
CreateRelist(s) ==
    /\ ses[s].op = "create" /\ ses[s].pc = "relist" /\ CanRun(s)
    /\ \E q \in OrderedAsc(OfPres(slides, ses[s].pid)) :
          ses' = [ses EXCEPT ![s] = Returned(s, SeqIds(q))]
    /\ UNCHANGED <<slides, n_slides, nextId, hist, s3vars>>

\* The response is sent and the request is over.
Reset(s) ==
    /\ ses[s].pc \in {"done", "failed"}
    /\ ses' = [ses EXCEPT ![s] = Idle]
    /\ UNCHANGED <<slides, n_slides, nextId, hist, s3vars>>

\* ------------------------------------------------------------------ delete_slide
\* A request arrives; sql_session.get(PresentationModel, presentation_id)
DeleteGet(s, ps) ==
    /\ ses[s].pc = "idle" /\ CanRun(s)
    /\ \E rq \in Requests(ps) : ses' = [ses EXCEPT ![s] = Got(s, "delete", rq, "list")]
    /\ UNCHANGED <<slides, n_slides, nextId, hist, s3vars>>

DeleteIndexOutOfRangeInclusive(i, len) == i < 0 \/ i > len
DeleteIndexOutOfRange(i, len) == i < 0 \/ i >= len

\* slides_list and the range check on slide_index
DeleteList(s) ==
    /\ ses[s].op = "delete" /\ ses[s].pc = "list" /\ CanRun(s)
    /\ LET rows == OfPres(Visible(s), ses[s].pid)
           len  == Cardinality(rows)
       IN IF DeleteIndexOutOfRange(ses[s].idx, len)
          THEN /\ ses' = [ses EXCEPT ![s] =
                           [Failed(s, "index out of range") EXCEPT !.len = len]]
               /\ slides' = OnError(slides, Flush(s))
               /\ UNCHANGED <<n_slides, nextId, hist, s3vars>>
          ELSE /\ ses' = [ses EXCEPT ![s].imap = Loaded(s, rows), ![s].len = len,
                                     ![s].pc = "lookup"]
               /\ UNCHANGED <<slides, n_slides, nextId, hist, s3vars>>

\* WHERE presentation == presentation_id AND index == slide_index
AtIndex(rows, p, i) == { r \in rows : r.pres = p /\ r.index = i }

\* slide_to_delete: the first row at the index, in no stated order.
DeleteLookup(s) ==
    /\ ses[s].op = "delete" /\ ses[s].pc = "lookup" /\ CanRun(s)
    /\ LET rows == AtIndex(Visible(s), ses[s].pid, ses[s].idx)
       IN IF rows = {}
          THEN Raise(s, "slide not found")
          ELSE /\ \E r \in rows :
                    ses' = [ses EXCEPT ![s].imap = Loaded(s, {r}),
                                       ![s].target = r.id,
                                       ![s].pc = "delete"]
               /\ UNCHANGED <<slides, n_slides, nextId, hist, s3vars>>

\* DELETE WHERE id == slide_to_delete.id, executed in the open transaction;
\* it waits for a row another open transaction deleted.
DeleteExecute(s) ==
    /\ ses[s].op = "delete" /\ ses[s].pc = "delete" /\ CanRun(s)
    /\ ses[s].target \notin LockedByOthers(s)
    /\ ses' = [ses EXCEPT ![s].deleted = {ses[s].target},
                          ![s].imap = { o \in @ : o.id # ses[s].target },
                          ![s].pc = "subsequent"]
    /\ UNCHANGED <<slides, n_slides, nextId, hist, s3vars>>

DeleteSubsequentWhereSkip(r, p, i) == r.pres = p /\ r.index > i + 1
\* WHERE presentation == presentation_id AND index > slide_index
DeleteSubsequentWhere(r, p, i) == r.pres = p /\ r.index > i

\* ORDER BY index
DeleteOrder(rows) == OrderedAsc(rows)

DeleteNSlidesUnfloored(n) == n - 1
DeleteNSlidesKeep(n) == n
\* max(0, presentation.n_slides - 1)
DeleteNSlides(n) == IF n - 1 > 0 THEN n - 1 ELSE 0

\* The subsequent slides are selected; when there are none the counter is
\* set and commit() is called.
DeleteSubsequent(s) ==
    /\ ses[s].op = "delete" /\ ses[s].pc = "subsequent" /\ CanRun(s)
    /\ LET rows == { r \in Visible(s) : DeleteSubsequentWhere(r, ses[s].pid, ses[s].idx) }
       IN \E q \in DeleteOrder(rows) :
            ses' = [ses EXCEPT ![s].imap = Loaded(s, rows),
                               ![s].subsequent = SeqIds(q),
                               ![s].k = 1,
                               ![s].newn = DeleteNSlides(ses[s].n),
                               ![s].pc = IF rows = {} THEN "commit" ELSE "shift"]
    /\ UNCHANGED <<slides, n_slides, nextId, hist, s3vars>>

\* One pass of: for s in subsequent_slides: s.index = s.index - 1; after the
\* last one the counter is set and commit() is called.
DeleteShift(s) ==
    /\ ses[s].op = "delete" /\ ses[s].pc = "shift"
    /\ LET i == ses[s].subsequent[ses[s].k]
       IN ses' = [ses EXCEPT ![s].imap = Reindexed(s, i, -1),
                             ![s].dirty = @ \cup {i},
                             ![s].k = @ + 1,
                             ![s].pc = IF ses[s].k = Len(ses[s].subsequent)
                                       THEN "commit" ELSE "shift"]
    /\ UNCHANGED <<slides, n_slides, nextId, hist, s3vars>>

\* sql_session.commit(): the DELETE, the shifted slides and the counter
\* (written when its value changed).
DeleteCommit(s) ==
    /\ ses[s].op = "delete" /\ ses[s].pc = "commit" /\ CanRun(s)
    /\ ~Blocked(s)
    /\ IF Stale(s)
       THEN Raise(s, "stale")
       ELSE /\ slides' = Flush(s)
            /\ n_slides' = IF ses[s].newn = ses[s].n THEN n_slides
                           ELSE [n_slides EXCEPT ![ses[s].pid] = ses[s].newn]
            /\ ses' = [ses EXCEPT ![s].pc = "relist", ![s].deleted = {}]
            /\ hist' = IF /\ hist.kind = "create" /\ hist.pid = ses[s].pid
                          /\ hist.idx = ses[s].idx
                       THEN [hist EXCEPT !.kind = "create-delete"]
                       ELSE NoHist
            /\ UNCHANGED <<nextId, s3vars>>

\* updated_slides, the ordered listing returned with the presentation.
DeleteRelist(s) ==
    /\ ses[s].op = "delete" /\ ses[s].pc = "relist" /\ CanRun(s)
    /\ \E q \in OrderedAsc(OfPres(slides, ses[s].pid)) :
          ses' = [ses EXCEPT ![s] = Returned(s, SeqIds(q))]
    /\ UNCHANGED <<slides, n_slides, nextId, hist, s3vars>>

\* ------------------------------------------------------------------ edit_slide
\* A request arrives; sql_session.get(PresentationModel, presentation_id)
EditGet(s, ps) ==
    /\ ses[s].pc = "idle" /\ CanRun(s)
    /\ \E rq \in Requests(ps) : ses' = [ses EXCEPT ![s] = Got(s, "edit", rq, "lookup")]
    /\ UNCHANGED <<slides, n_slides, nextId, hist, s3vars>>

\* slide: the first row at the index, in no stated order.
EditLookup(s) ==
    /\ ses[s].op = "edit" /\ ses[s].pc = "lookup" /\ CanRun(s)
    /\ LET rows == AtIndex(Visible(s), ses[s].pid, ses[s].idx)
       IN IF rows = {}
          THEN Raise(s, "slide not found")
          ELSE /\ \E r \in rows :
                    ses' = [ses EXCEPT ![s].imap = Loaded(s, {r}),
                                       ![s].target = r.id,
                                       ![s].pc = "layout"]
               /\ UNCHANGED <<slides, n_slides, nextId, hist, s3vars>>

\* get_slide_layout_from_prompt, which may raise.
EditLayout(s) ==
    /\ ses[s].op = "edit" /\ ses[s].pc = "layout"
    /\ \/ /\ ses' = [ses EXCEPT ![s] =
                       [Failed(s, "generation failed") EXCEPT !.calls = ses[s].calls \cup {"layout"}]]
          /\ slides' = OnError(slides, Flush(s))
          /\ UNCHANGED <<n_slides, nextId, hist, s3vars>>
       \/ \E l \in Layouts :
            /\ ses' = [ses EXCEPT ![s].layout = l,
                                  ![s].calls = @ \cup {"layout"},
                                  ![s].pc = "content"]
            /\ UNCHANGED <<slides, n_slides, nextId, hist, s3vars>>

\* get_edited_slide_content, which may raise.
EditContent(s) ==
    /\ ses[s].op = "edit" /\ ses[s].pc = "content"
    /\ \/ /\ ses' = [ses EXCEPT ![s] =
                       [Failed(s, "generation failed") EXCEPT !.calls = ses[s].calls \cup {"content"}]]
          /\ slides' = OnError(slides, Flush(s))
          /\ UNCHANGED <<n_slides, nextId, hist, s3vars>>
       \/ \E c \in Contents :
            /\ ses' = [ses EXCEPT ![s].content = c,
                                  ![s].calls = @ \cup {"content"},
                                  ![s].pc = "assets"]
            /\ UNCHANGED <<slides, n_slides, nextId, hist, s3vars>>

EditIdentityKept(old, fresh) == old
\* slide.id = uuid.uuid4()
EditIdentity(old, fresh) == fresh

\* process_old_and_new_slides_and_fetch_assets, which may raise; then the
\* slide gets its new identity and commit() is called.
EditAssets(s) ==
    /\ ses[s].op = "edit" /\ ses[s].pc = "assets"
    /\ \/ /\ ses' = [ses EXCEPT ![s] =
                       [Failed(s, "generation failed") EXCEPT !.calls = ses[s].calls \cup {"assets"}]]
          /\ slides' = OnError(slides, Flush(s))
          /\ UNCHANGED <<n_slides, nextId, hist, s3vars>>
       \/ /\ ses' = [ses EXCEPT ![s].calls = @ \cup {"assets"},
                                ![s].uid = EditIdentity(ses[s].target, nextId + 1),
                                ![s].pc = "commit"]
          /\ nextId' = nextId + 1
          /\ UNCHANGED <<slides, n_slides, hist, s3vars>>

\* The row of the edited slide as the flush writes it: the columns the
\* handler assigned, the others as stored.
Edited(s, r) ==
    [r EXCEPT !.id = ses[s].uid, !.content = ses[s].content,
              !.layout = ses[s].layout, !.note = SpeakerNote(ses[s].content)]

\* sql_session.commit(), and the slide is returned.
EditCommit(s) ==
    /\ ses[s].op = "edit" /\ ses[s].pc = "commit" /\ CanRun(s)
    /\ ~Blocked(s)
    /\ IF Stale(s)
       THEN Raise(s, "stale")
       ELSE /\ slides' = { IF r.id = ses[s].target THEN Edited(s, r) ELSE r : r \in slides }
            /\ ses' = [ses EXCEPT ![s] = Returned(s, <<ses[s].uid>>)]
            /\ hist' = NoHist
            /\ UNCHANGED <<n_slides, nextId, s3vars>>

\* ------------------------------------------------------------------ edit_slide_html
\* html values a request may carry: none, or markup.
ReqHtmls == {NoHtml, "h0"}

\* html or slide.html_content
HtmlToEditRequestOnly(h, stored) == h
HtmlToEdit(h, stored) == IF h # NoHtml THEN h ELSE stored

\* A request arrives for a slide id (one that some slide has, or one that
\* does not resolve); sql_session.get(SlideModel, id) and the check that
\* there is HTML to edit.
HtmlGet(s, ps) ==
    /\ ses[s].pc = "idle" /\ CanRun(s)
    /\ \E i \in { r.id : r \in { x \in slides : x.pres \in ps } } \cup {NoId}, h \in ReqHtmls :
         LET rows == { r \in slides : r.id = i }
             rq   == [Idle EXCEPT !.op = "edit_html", !.sid = i, !.reqhtml = h]
         IN IF rows = {}
            THEN ses' = [ses EXCEPT ![s] =
                           [rq EXCEPT !.pc = "failed", !.err = "slide not found"]]
            ELSE LET r == CHOOSE x \in rows : TRUE
                 IN IF HtmlToEdit(h, r.html) = NoHtml
                    THEN ses' = [ses EXCEPT ![s] =
                                   [rq EXCEPT !.pc = "failed", !.err = "no html to edit",
                                              !.target = r.id, !.pid = r.pres]]
                    ELSE ses' = [ses EXCEPT ![s] =
                                   [rq EXCEPT !.pc = "html", !.imap = {r},
                                              !.target = r.id, !.pid = r.pres]]
    /\ UNCHANGED <<slides, n_slides, nextId, hist, s3vars>>

\* get_edited_slide_html, which may raise; then the slide gets its new
\* identity and commit() is called.
HtmlEdit(s) ==
    /\ ses[s].op = "edit_html" /\ ses[s].pc = "html"
    /\ \/ /\ ses' = [ses EXCEPT ![s] =
                       [Failed(s, "generation failed") EXCEPT !.calls = ses[s].calls \cup {"html"}]]
          /\ slides' = OnError(slides, Flush(s))
          /\ UNCHANGED <<n_slides, nextId, hist, s3vars>>
       \/ \E h \in Htmls :
            /\ ses' = [ses EXCEPT ![s].newhtml = h,
                                  ![s].calls = @ \cup {"html"},
                                  ![s].uid = nextId + 1,
                                  ![s].pc = "commit"]
            /\ nextId' = nextId + 1
            /\ UNCHANGED <<slides, n_slides, hist, s3vars>>

\* sql_session.commit(), and the slide is returned.
HtmlCommit(s) ==
    /\ ses[s].op = "edit_html" /\ ses[s].pc = "commit" /\ CanRun(s)
    /\ ~Blocked(s)
    /\ IF Stale(s)
       THEN Raise(s, "stale")
       ELSE /\ slides' = { IF r.id = ses[s].target
                           THEN [r EXCEPT !.id = ses[s].uid, !.html = ses[s].newhtml]
                           ELSE r : r \in slides }
            /\ ses' = [ses EXCEPT ![s] = Returned(s, <<ses[s].uid>>)]
            /\ hist' = NoHist
            /\ UNCHANGED <<n_slides, nextId, s3vars>>

\* ------------------------------------------------------------------ s3_utils
\* Threads of the event loop's default executor, which run the synchronous
\* helpers of upload_file_to_s3 and download_file_from_s3 side by side.
Threads == {1, 2}
\* _s3_client = None
NoClient == 0
Tasks == {"upload", "download"}
\* The settings read from the environment: each one set or missing.
Envs ==
    [endpoint : BOOLEAN, access_key : BOOLEAN, secret_key : BOOLEAN,
     bucket : BOOLEAN]
Unconfigured ==
    [endpoint |-> FALSE, access_key |-> FALSE, secret_key |-> FALSE,
     bucket |-> FALSE]

\* A thread without a task: the client _build_s3_client returned to it, the
\* client get_s3_client returned to it, whether it called the transfer,
\* whether that completed, whether an exception left the helper, the value
\* the helper returned and the result of the coroutine that awaits it.
ThreadIdle ==
    [task |-> "none", pc |-> "idle", made |-> NoClient, client |-> NoClient,
     attempted |-> FALSE, completed |-> FALSE, raised |-> FALSE,
     value |-> "None", result |-> "pending"]

S3Init(e) ==
    /\ env = e
    /\ s3_client = NoClient
    /\ built = 0
    /\ thr = [t \in Threads |-> ThreadIdle]

\* not endpoint or not access_key or not secret_key
BuildDisabled(e) == ~e.endpoint \/ ~e.access_key \/ ~e.secret_key

\* client is None or not bucket
TransferDisabled(c, e) == c = NoClient \/ ~e.bucket

OnExceptionPropagate(raised, value) == IF raised THEN "raised" ELSE value
\* except Exception: return None
OnException(raised, value) == IF raised THEN "None" ELSE value

\* loop.run_in_executor(None, helper, ...): a thread takes the task.
S3Submit(t) ==
    /\ thr[t].pc \in {"idle", "done"}
    /\ \E k \in Tasks :
         thr' = [thr EXCEPT ![t] = [ThreadIdle EXCEPT !.task = k, !.pc = "check"]]
    /\ UNCHANGED <<s3_client, env, built, slidevars>>

\* get_s3_client: if _s3_client is None
S3Check(t) ==
    /\ thr[t].pc = "check"
    /\ thr' = [thr EXCEPT ![t].pc = IF s3_client = NoClient THEN "build" ELSE "return"]
    /\ UNCHANGED <<s3_client, env, built, slidevars>>

\* _build_s3_client(): None when a setting is missing, else boto3.client(),
\* which constructs a client or raises.
S3Build(t) ==
    /\ thr[t].pc = "build"
    /\ IF BuildDisabled(env)
       THEN /\ thr' = [thr EXCEPT ![t].made = NoClient, ![t].pc = "assign"]
            /\ UNCHANGED built
       ELSE \/ /\ built' = built + 1
               /\ thr' = [thr EXCEPT ![t].made = built + 1, ![t].pc = "assign"]
            \/ /\ thr' = [thr EXCEPT ![t].raised = TRUE, ![t].pc = "result"]
               /\ UNCHANGED built
    /\ UNCHANGED <<s3_client, env, slidevars>>

\* _s3_client = <what _build_s3_client returned>
S3Assign(t) ==
    /\ thr[t].pc = "assign"
    /\ s3_client' = thr[t].made
    /\ thr' = [thr EXCEPT ![t].pc = "return"]
    /\ UNCHANGED <<env, built, slidevars>>

\* return _s3_client
S3Return(t) ==
    /\ thr[t].pc = "return"
    /\ thr' = [thr EXCEPT ![t].client = s3_client, ![t].pc = "bucket"]
    /\ UNCHANGED <<s3_client, env, built, slidevars>>

\* if client is None or not bucket: return None
S3Bucket(t) ==
    /\ thr[t].pc = "bucket"
    /\ thr' = [thr EXCEPT ![t].pc = IF TransferDisabled(thr[t].client, env)
                                    THEN "result" ELSE "transfer"]
    /\ UNCHANGED <<s3_client, env, built, slidevars>>

\* client.upload_file(...), then return key; os.makedirs(...), then
\* client.download_file(...), then return local_path.  Each call may raise.
S3Transfer(t) ==
    /\ thr[t].pc = "transfer"
    /\ \/ /\ thr[t].task = "download"
          /\ thr' = [thr EXCEPT ![t].raised = TRUE, ![t].pc = "result"]
       \/ thr' = [thr EXCEPT ![t].attempted = TRUE, ![t].raised = TRUE,
                             ![t].pc = "result"]
       \/ thr' = [thr EXCEPT ![t].attempted = TRUE, ![t].completed = TRUE,
                             ![t].value = IF thr[t].task = "upload" THEN "key" ELSE "path",
                             ![t].pc = "result"]
    /\ UNCHANGED <<s3_client, env, built, slidevars>>

\* The coroutine's await ends: the helper's value, or None after an
\* exception.
S3Result(t) ==
    /\ thr[t].pc = "result"
    /\ thr' = [thr EXCEPT ![t].result = OnException(thr[t].raised, thr[t].value),
                          ![t].pc = "done"]
    /\ UNCHANGED <<s3_client, env, built, slidevars>>

\* ------------------------------------------------------------------ specifications
\* The steps of a handler after its request arrived.
Step(s) ==
    \/ CreateList(s) \/ CreateStructure(s) \/ CreateContent(s)
    \/ CreateSubsequent(s) \/ CreateShift(s) \/ CreateAssets(s)
    \/ CreateCommit(s) \/ CreateRelist(s)
    \/ DeleteList(s) \/ DeleteLookup(s) \/ DeleteExecute(s)
    \/ DeleteSubsequent(s) \/ DeleteShift(s) \/ DeleteCommit(s) \/ DeleteRelist(s)
    \/ EditLookup(s) \/ EditLayout(s) \/ EditContent(s)
    \/ EditAssets(s) \/ EditCommit(s)
    \/ HtmlEdit(s) \/ HtmlCommit(s)

\* A slide deck as k committed create_slide requests appending to an empty
\* presentation p leave it, the identities following base.
DeckContent(j) == IF j % 2 = 0 THEN [body |-> 1, sn |-> NoNote] ELSE [body |-> 2, sn |-> "note"]

Deck(p, k, base) == { Row(base + j + 1, p, j, DeckContent(j), 0) : j \in 0 .. k - 1 }

\* Two requests are served concurrently, each on a presentation that holds
\* a deck: a handler runs until it waits for the store.  The handler of the
\* request that arrives first is handler 1.
Init ==
    \E k1 \in 0 .. MaxId - 1, k2 \in {0, 1} :
        /\ slides = Deck(1, k1, 0) \cup Deck(2, k2, k1)
        /\ n_slides = [p \in Pres |-> IF p = 1 THEN k1 ELSE k2]
        /\ nextId = k1 + k2
        /\ ses = [s \in Sess |-> Idle]
        /\ hist = NoHist
        /\ S3Init(Unconfigured)

First(s) == \A t \in Sess : t < s => ses[t].pc # "idle"

Next ==
    \E s \in Sess :
        \/ /\ First(s)
           /\ \/ CreateGet(s, Pres) \/ DeleteGet(s, Pres)
              \/ EditGet(s, Pres) \/ HtmlGet(s, Pres)
        \/ Step(s)

Spec == Init /\ [][Next]_vars

\* Requests on one presentation are served one at a time, starting with no
\* slides, while uuid4() identities are left.
One == CHOOSE s \in Sess : \A u \in Sess : s <= u

InitSeq ==
    /\ slides = {}
    /\ n_slides = [p \in Pres |-> 0]
    /\ nextId = 0
    /\ ses = [s \in Sess |-> Idle]
    /\ hist = NoHist
    /\ S3Init(Unconfigured)

NextSeq ==
    \/ /\ nextId < MaxId
       /\ (CreateGet(One, {1}) \/ EditGet(One, {1}) \/ HtmlGet(One, {1}))
    \/ DeleteGet(One, {1})
    \/ Step(One)
    \/ Reset(One)

SpecSeq == InitSeq /\ [][NextSeq]_vars

\* Requests on one presentation are served one at a time, starting from a
\* deck whose stored counter may differ from its number of slides: a
\* counter never set, or one that requests committing side by side left
\* behind.
InitDrift ==
    \E k \in 0 .. MaxId - 1, c \in 0 .. MaxId :
        /\ slides = Deck(1, k, 0)
        /\ n_slides = [p \in Pres |-> IF p = 1 THEN c ELSE 0]
        /\ nextId = k
        /\ ses = [s \in Sess |-> Idle]
        /\ hist = NoHist
        /\ S3Init(Unconfigured)

SpecDrift == InitDrift /\ [][NextSeq]_vars

\* Uploads and downloads run on the executor threads side by side, under
\* any settings of the environment; no slide request is served.
InitS3 ==
    /\ \E e \in Envs : S3Init(e)
    /\ slides = {}
    /\ n_slides = [p \in Pres |-> 0]
    /\ nextId = 0
    /\ ses = [s \in Sess |-> Idle]
    /\ hist = NoHist

NextS3 ==
    \E t \in Threads :
        \/ S3Submit(t) \/ S3Check(t) \/ S3Build(t) \/ S3Assign(t)
        \/ S3Return(t) \/ S3Bucket(t) \/ S3Transfer(t) \/ S3Result(t)

SpecS3 == InitS3 /\ [][NextS3]_vars

\* ------------------------------------------------------------------ properties
Live(p) == OfPres(slides, p)

\* The indexes of rows are 0 .. count-1, each once.
Contiguous(rows) == IndexSet(rows) = 0 .. (Cardinality(rows) - 1)

NoDuplicateIndex(rows) == Cardinality(IndexSet(rows)) = Cardinality(rows)

Consistent(p) == Contiguous(Live(p)) /\ n_slides[p] = Cardinality(Live(p))

\* Session s took the step that committed its operation o.
Committed(s, o) ==
    /\ ses[s].op = o /\ ses[s].pc = "commit"
    /\ ses'[s].pc \in {"relist", "done"}

\* C1: with create_slide and delete_slide requests served one at a time on
\* a presentation that starts empty, the indexes of its live slides are
\* always exactly 0 .. count-1, without gap or duplicate.
C1_Contiguity == \A p \in Pres : Contiguous(Live(p))

\* A delete at index 0 of three slides has committed.
C1_Witness ==
    /\ ses[One].pc = "done" /\ ses[One].op = "delete" /\ ses[One].idx = 0
    /\ Cardinality(Live(1)) = 2

\* C2: after a committed create_slide or delete_slide, the n_slides the
\* operation returns equals the number of slides in the listing it returns.
C2_CounterMatchesListing ==
    \A s \in Sess :
        (ses[s].pc = "done" /\ ses[s].op \in {"create", "delete"})
            => ses[s].newn = Len(ses[s].ret)

\* C3: once two concurrent create_slide / delete_slide requests on the same
\* presentation have both committed, its indexes are contiguous and
\* n_slides equals its number of slides.
C3_ConcurrentStructuralConsistent ==
    ( /\ \A s \in Sess : ses[s].pc = "done" /\ ses[s].op \in {"create", "delete"}
      /\ \A s, u \in Sess : ses[s].pid = ses[u].pid )
        => \A s \in Sess : Consistent(ses[s].pid)

\* C4: a step at which an operation fails leaves every slide row and every
\* n_slides as stored before it.
C4_FailureCommitsNothing ==
    [][ \A s \in Sess :
          (ses[s].pc # "failed" /\ ses'[s].pc = "failed")
              => (slides' = slides /\ n_slides' = n_slides) ]_vars

\* A create_slide failed in asset generation after it had shifted slides.
C4_Witness ==
    \E s \in Sess :
        /\ ses[s].pc = "failed" /\ ses[s].op = "create"
        /\ ses[s].err = "generation failed" /\ "assets" \in ses[s].calls
        /\ ses[s].idx < ses[s].len

\* C5: the range check of create_slide rejects exactly the indexes below 0
\* or above the live count, that of delete_slide exactly those below 0 or at
\* or above it; a rejected request has called no collaborator and leaves
\* the slides and n_slides as they were.
C5_IndexRangeRejected ==
    [][ \A s \in Sess :
          (ses[s].pc = "list" /\ ses'[s] # ses[s]) =>
            LET count == Cardinality(Live(ses[s].pid))
                bad   == IF ses[s].op = "create"
                         THEN ses[s].idx < 0 \/ ses[s].idx > count
                         ELSE ses[s].idx < 0 \/ ses[s].idx >= count
            IN IF bad
               THEN /\ ses'[s].pc = "failed"
                    /\ ses'[s].err = "index out of range"
                    /\ ses'[s].calls = {}
                    /\ slides' = slides /\ n_slides' = n_slides
               ELSE ses'[s].pc # "failed" ]_vars

\* A create_slide at count+1 and a delete_slide at count were rejected.
C5_Witness ==
    \E s, u \in Sess :
        /\ ses[s].pc = "failed" /\ ses[s].op = "create"
        /\ ses[s].err = "index out of range" /\ ses[s].idx = ses[s].len + 1
        /\ ses[u].pc = "failed" /\ ses[u].op = "delete"
        /\ ses[u].err = "index out of range" /\ ses[u].idx = ses[u].len
        /\ ses[u].len > 0

\* C6: a committed create_slide at i adds one slide with a fresh identity
\* at i and moves exactly the slides at j >= i to j+1; a committed
\* delete_slide at i removes exactly the slide at i, moves exactly the
\* slides at j > i to j-1 and leaves n_slides at the number of slides; every
\* other column of every other slide is as before.
C6_ShiftEffect ==
    [][ /\ Committed(One, "create") =>
             LET p == ses[One].pid
                 i == ses[One].idx
                 moved(r) == IF r.pres = p /\ r.index >= i
                             THEN [r EXCEPT !.index = r.index + 1] ELSE r
             IN \E new \in slides' :
                   /\ new.id \notin IdsOf(slides)
                   /\ new.pres = p /\ new.index = i
                   /\ slides' = { moved(r) : r \in slides } \cup {new}
        /\ Committed(One, "delete") =>
             LET p == ses[One].pid
                 i == ses[One].idx
                 moved(r) == IF r.pres = p /\ r.index > i
                             THEN [r EXCEPT !.index = r.index - 1] ELSE r
             IN /\ \E gone \in slides :
                      /\ gone.pres = p /\ gone.index = i
                      /\ slides' = { moved(r) : r \in slides \ {gone} }
                /\ n_slides'[p] = Cardinality(OfPres(slides', p)) ]_vars

\* A create_slide at index 1 of two slides has committed.
C6_Witness ==
    /\ ses[One].pc = "done" /\ ses[One].op = "create" /\ ses[One].idx = 1
    /\ Len(ses[One].ret) = 3

C8_EditReassignsIdentity ==
    [][ \A s \in Sess :
          Committed(s, "edit") =>
            /\ n_slides' = n_slides
            /\ \E r \in slides : \E e \in slides' :
                  /\ r.id = ses[s].target
                  /\ e.id \notin IdsOf(slides)
                  /\ e.index = r.index /\ e.pres = r.pres
                  /\ slides' = (slides \ {r}) \cup {e} ]_vars

\* An edit_slide has committed and its slide is stored under the new
\* identity, beside another slide.
C8_Witness ==
    \E s \in Sess :
        /\ ses[s].pc = "done" /\ ses[s].op = "edit"
        /\ ses[s].ret[1] # ses[s].target
        /\ \E r \in slides : r.id = ses[s].ret[1]
        /\ Cardinality(Live(ses[s].pid)) > 1

\* The requests in progress are on different presentations.
Apart == \A s, u \in Sess : s # u => ses[s].pid # ses[u].pid

\* C9: a step changes the rows and the counter of the presentation of the
\* request that takes it only; while the requests served are on different
\* presentations every presentation stays as requests served alone leave
\* it: contiguous, with n_slides its number of slides.
C9_OtherPresentationsUntouched ==
    [][ /\ \A q \in Pres :
             (OfPres(slides', q) # OfPres(slides, q) \/ n_slides'[q] # n_slides[q])
                 => \E s \in Sess : ses'[s] # ses[s] /\ ses[s].pid = q
        /\ Apart' => \A q \in Pres : Consistent(q)' ]_vars

\* A create_slide on one presentation and a delete_slide on the other, both
\* non-empty, have committed side by side.
C9_Witness ==
    \E s, u \in Sess :
        /\ ses[s].pc = "done" /\ ses[s].op = "create"
        /\ ses[u].pc = "done" /\ ses[u].op = "delete"
        /\ ses[s].pid # ses[u].pid
        /\ Live(ses[s].pid) # {} /\ Live(ses[u].pid) # {}
        /\ ses[s].idx = 0 /\ ses[s].len > 0

\* The rows of its presentation as the transaction of session s holds them.
TxView(s) == OfPres(Flush(s), ses[s].pid)

\* C10: while the reindex loop of create_slide or delete_slide rewrites the
\* slides one at a time in the order they were selected, no two slides of
\* the presentation hold the same index, nor do they once the new slide is
\* written.
C10_NoTransientDuplicate ==
    /\ \A s \in Sess :
          ses[s].op \in {"create", "delete"} => NoDuplicateIndex(TxView(s))
    /\ \A p \in Pres : NoDuplicateIndex(Live(p))

\* A create_slide is in its loop: one slide rewritten, another still to be.
C10_Witness ==
    /\ ses[One].op = "create" /\ ses[One].pc = "shift"
    /\ ses[One].k = 2 /\ Len(ses[One].subsequent) = 2


\* C11: in create_slide and edit_slide, until the asset-generation call has
\* returned the session has read no slide row and staged no change to one
\* (no slide loaded, none selected for the shift, no index reassigned).
C11_AssetsBeforeTransaction ==
    \A s \in Sess :
        ( /\ ses[s].op \in {"create", "edit"}
          /\ ses[s].pc \notin {"failed", "done"}
          /\ "assets" \notin ses[s].calls )
            => (ses[s].imap = {} /\ ses[s].subsequent = <<>> /\ ses[s].dirty = {})

\* C12: a delete_slide whose index passed the range check and whose point
\* lookup finds no slide at that index fails with slide-not-found and leaves
\* the slides and n_slides as stored; it fails so only after the range check
\* passed, and a lookup that finds a slide does not fail.
C12_DeleteLookupNotFound ==
    [][ \A s \in Sess :
          (ses[s].op = "delete" /\ ses[s].pc = "lookup" /\ ses'[s] # ses[s]) =>
            IF { r \in slides : r.pres = ses[s].pid /\ r.index = ses[s].idx } = {}
            THEN /\ ses'[s].pc = "failed"
                 /\ ses'[s].err = "slide not found"
                 /\ 0 <= ses[s].idx /\ ses[s].idx < ses[s].len
                 /\ slides' = slides /\ n_slides' = n_slides
            ELSE ses'[s].pc # "failed" ]_vars

\* A delete_slide passed the range check on two or more slides and then
\* found no slide at its index, slides of its presentation still stored.
C12_Witness ==
    \E s \in Sess :
        /\ ses[s].pc = "failed" /\ ses[s].op = "delete"
        /\ ses[s].err = "slide not found"
        /\ ses[s].idx < ses[s].len /\ ses[s].len >= 2
        /\ Live(ses[s].pid) # {}

\* C13: in create_slide with a layout that is not ordered, the layout chosen
\* for the new slide is the suggested position when that is within the layouts and
\* position 0 otherwise, and no suggestion makes the selection fail on a
\* position outside the layouts.
C13_LayoutClamped ==
    \A s \in Sess :
        /\ ses[s].err # "IndexError"
        /\ ( /\ ses[s].op = "create" /\ ~Ordered(ses[s].pid)
             /\ ses[s].pc = "content" )
               => ses[s].layout =
                    IF 0 <= ses[s].layout_index /\ ses[s].layout_index < Cardinality(Layouts)
                    THEN ses[s].layout_index ELSE 0

\* C14: a committed edit_slide_html replaces the row of its slide by one
\* with an identity no slide had and the edited markup as html, every other
\* column as stored, having called only the markup collaborator; no other
\* row and no n_slides changes.  A request for an existing slide fails for
\* lack of html exactly when it carries none and the slide stores none, and
\* then leaves every row as stored.
C14_EditHtmlFrame ==
    [][ \A s \in Sess :
          /\ Committed(s, "edit_html") =>
               /\ n_slides' = n_slides
               /\ ses[s].calls = {"html"}
               /\ \E r \in slides :
                     /\ r.id = ses[s].target
                     /\ ses[s].uid \notin IdsOf(slides)
                     /\ ses[s].newhtml \in Htmls
                     /\ slides' = (slides \ {r}) \cup
                                    { [id |-> ses[s].uid, pres |-> r.pres,
                                       index |-> r.index, content |-> r.content,
                                       layout |-> r.layout, note |-> r.note,
                                       html |-> ses[s].newhtml] }
          /\ (ses[s].pc = "idle" /\ ses'[s].op = "edit_html" /\ ses'[s].target # NoId) =>
               /\ slides' = slides /\ n_slides' = n_slides
               /\ \E r \in slides :
                     /\ r.id = ses'[s].target
                     /\ (ses'[s].pc = "failed")
                          <=> (ses'[s].reqhtml = NoHtml /\ r.html = NoHtml)
                     /\ ses'[s].pc = "failed" => ses'[s].err = "no html to edit" ]_vars

\* An edit_slide_html without html in the request has committed on the
\* markup its slide stored.
C14_Witness ==
    \E s \in Sess :
        /\ ses[s].pc = "done" /\ ses[s].op = "edit_html"
        /\ ses[s].reqhtml = NoHtml
        /\ \E r \in slides : r.id = ses[s].ret[1] /\ r.html \in Htmls

\* The value of the reserved speaker note entry of content c, or the empty
\* string when c has no such entry.
NoteEntry(c) == IF c.sn = "absent" THEN "" ELSE c.sn

\* C15: the slide a committed create_slide adds and the slide a committed
\* edit_slide rewrites has as speaker_note the reserved entry of the content
\* stored on it, the empty string when there is none; every slide that
\* keeps its identity over a step, a shifted one included, keeps its
\* speaker_note.
C15_SpeakerNoteMirrors ==
    [][ /\ \A s \in Sess :
             (Committed(s, "create") \/ Committed(s, "edit")) =>
                \E r \in slides' :
                   /\ r.id = ses[s].uid /\ r.id \notin IdsOf(slides)
                   /\ r.content = ses[s].content
                   /\ r.note = NoteEntry(r.content)
        /\ \A r \in slides : \A q \in slides' :
             q.id = r.id => q.note = r.note ]_vars

\* A create_slide whose content has no speaker note entry has committed at
\* index 0 before a slide with a speaker note, which it shifted.
C15_Witness ==
    \E s \in Sess :
        /\ ses[s].pc = "done" /\ ses[s].op = "create" /\ ses[s].idx = 0
        /\ \E r \in slides : r.id = ses[s].uid /\ r.content.sn = "absent" /\ r.note = ""
        /\ \E r \in slides : r.pres = ses[s].pid /\ r.index > 0 /\ r.note = "note"

\* C16: the content stored on a slide by a committed create_slide or
\* edit_slide, which is the content returned to the caller, has no reserved
\* speaker note entry.
C16_ReservedKeyNotSurfaced ==
    [][ \A s \in Sess :
          (Committed(s, "create") \/ Committed(s, "edit")) =>
             \A r \in slides' : r.id = ses[s].uid => r.content.sn = "absent" ]_vars

\* C17: a committed delete_slide leaves n_slides at the previous value less
\* one, or at 0 when that would be negative, and changes no other
\* presentation's counter; n_slides is never negative.
C17_CounterFloor ==
    /\ [](\A p \in Pres : n_slides[p] >= 0)
    /\ [][ Committed(One, "delete") =>
             /\ n_slides'[ses[One].pid] =
                  (IF n_slides[ses[One].pid] >= 1 THEN n_slides[ses[One].pid] - 1 ELSE 0)
             /\ \A p \in Pres \ {ses[One].pid} : n_slides'[p] = n_slides[p] ]_vars

\* A delete_slide has committed on a presentation whose counter was 0 though
\* it held two slides: the counter is still 0 and a slide remains.
C17_Witness ==
    /\ ses[One].op = "delete" /\ ses[One].pc = "relist"
    /\ ses[One].n = 0 /\ ses[One].len = 2
    /\ n_slides[ses[One].pid] = 0
    /\ Cardinality(Live(ses[One].pid)) = 1

\* C18: a committed create_slide leaves n_slides at the previous value plus
\* one when that value is not 0, and at the number of slides before the
\* insert plus one when it is 0.
C18_CounterAfterCreate ==
    [][ Committed(One, "create") =>
          n_slides'[ses[One].pid] =
            (IF n_slides[ses[One].pid] # 0
             THEN n_slides[ses[One].pid] + 1
             ELSE Cardinality(Live(ses[One].pid)) + 1) ]_vars

\* A create_slide has committed on a presentation whose counter was 0 though
\* it held two slides: the counter is 3, the number of slides.
C18_Witness ==
    /\ ses[One].op = "create" /\ ses[One].pc = "relist"
    /\ ses[One].n = 0 /\ ses[One].len = 2
    /\ n_slides[ses[One].pid] = 3
    /\ Cardinality(Live(ses[One].pid)) = 3

\* Every setting the transfers need is present.
Configured(e) == e.endpoint /\ e.access_key /\ e.secret_key /\ e.bucket

\* C19: with object storage configured, at most one client is ever
\* constructed and every get_s3_client call returns the same client.
C19_ClientConstructedOnce ==
    Configured(env) =>
        /\ built <= 1
        /\ \A t, u \in Threads :
              (thr[t].client # NoClient /\ thr[u].client # NoClient)
                  => thr[t].client = thr[u].client

\* C20: the result of upload_file_to_s3 and download_file_from_s3 is None
\* or the helper's value, never an exception; with a setting missing it is
\* None and no transfer was called; after an exception it is None; when it
\* is not None the transfer was called and completed.
C20_NeverFailsHard ==
    \A t \in Threads :
        thr[t].pc = "done" =>
            /\ thr[t].result \in {"None", "key", "path"}
            /\ ~Configured(env) => (thr[t].result = "None" /\ ~thr[t].attempted)
            /\ thr[t].raised => thr[t].result = "None"
            /\ thr[t].result # "None" =>
                  (thr[t].attempted /\ thr[t].completed /\ ~thr[t].raised)

\* An upload whose transfer raised has returned None beside a download that
\* completed and returned its path.
C20_Witness ==
    \E t, u \in Threads :
        /\ thr[t].pc = "done" /\ thr[t].task = "upload"
        /\ thr[t].attempted /\ thr[t].raised /\ thr[t].result = "None"
        /\ thr[u].pc = "done" /\ thr[u].task = "download"
        /\ thr[u].result = "path"
=============================================================================
